---- MODULE Spec2Model ----
(***************************************************************************)
(* A model of MatchExpressionParser                                        *)
(* (src/mongo/db/matcher/expression_parser.cpp): the recursive descent     *)
(* parser that turns a BSON query predicate into a match expression tree.  *)
(*                                                                         *)
(* A BSON element is a record [name, type, val]; a document and an array   *)
(* are sequences of elements (array items are named "0", "1", ...).        *)
(* A match expression is a record [type, path, arg, kids].                 *)
(* A Status / StatusWithMatchExpression is a record                        *)
(* [ok, code, msg, expr, root, log]: msg is the message as a sequence of   *)
(* the pieces streamed into it, root the children a Status-returning       *)
(* function appended to the AND it was handed, log the calls it made.      *)
(***************************************************************************)
EXTENDS Integers, Sequences, FiniteSets, TLC

VARIABLES query, whereCallback, geoCallback, textCallback, castOutcome, pc, result

vars == <<query, whereCallback, geoCallback, textCallback, castOutcome, pc, result>>

(***************************************************************************)
(* Bounds of the model.                                                    *)
(***************************************************************************)
\* MatchExpressionParser::kMaximumTreeDepth, 100 in the program, scaled down.
kMaximumTreeDepth == 3

\* How far beyond kMaximumTreeDepth the nested input predicates go.
MaxOverDepth == 2

\* Doubles of the inputs range over -MaxHalves/2 .. MaxHalves/2 in steps of
\* one half; $mod arrays have up to MaxModLen items.
MaxHalves == 5
MaxModLen == 3

\* $all arrays built from the items of the inputs have up to MaxAllLen items.
MaxAllLen == 2

(***************************************************************************)
(* The value model (BSONElement / BSONObj).                                *)
(***************************************************************************)
Elem(n, t, v) == [name |-> n, type |-> t, val |-> v]

EOO == Elem("", "EOO", 0)

\* 2^31, kept out of TLC's integers: INT_MIN is written -IntMax - 1.
IntMax == 2147483647
IntMin == (-2147483647) - 1

I32(n, v)    == Elem(n, "NumberInt", v)
\* A NumberLong is held as its two 32-bit halves: hi is the signed upper
\* half, lo the lower half read as a signed 32-bit integer.
I64(n, h, l) == Elem(n, "NumberLong", [hi |-> h, lo |-> l])
\* A NumberDouble is held as [range, halves]: halves is twice the value for a
\* value inside the int range; range is "big" for a finite value outside it
\* and "nan" for a NaN.
Dbl(n, h)    == Elem(n, "NumberDouble", [range |-> "int", halves |-> h])
BigDbl(n)    == Elem(n, "NumberDouble", [range |-> "big", halves |-> 0])
NanDbl(n)    == Elem(n, "NumberDouble", [range |-> "nan", halves |-> 0])
Str(n, s)    == Elem(n, "String", s)
Bool(n, b)   == Elem(n, "Bool", b)
Null(n)      == Elem(n, "Null", 0)
Rx(n, p, f)  == Elem(n, "RegEx", <<p, f>>)
Doc(n, d)    == Elem(n, "Object", d)

Rename(e, n) == [e EXCEPT !.name = n]

\* A BSON array: the items are stored under the keys "0", "1", ...
Arr(n, items) == Elem(n, "Array", [i \in 1..Len(items) |-> Rename(items[i], ToString(i - 1))])

firstElement(obj) == IF Len(obj) = 0 THEN EOO ELSE obj[1]

isABSONObj(e) == e.type \in {"Object", "Array"}

isNumber(e) == e.type \in {"NumberInt", "NumberLong", "NumberDouble"}

\* Truncation toward zero of halves / 2.
TruncHalves(h) == IF h >= 0 THEN h \div 2 ELSE -((-h) \div 2)

\* (int) cast of the stored number; the cast of a double outside the int
\* range is undefined behaviour, castOutcome is what the build produces.
numberInt(e) ==
    CASE e.type = "NumberInt" -> e.val
      [] e.type = "NumberLong" -> e.val.lo
      [] e.type = "NumberDouble" ->
            IF e.val.range = "int" THEN TruncHalves(e.val.halves) ELSE castOutcome
      [] OTHER -> 0

\* e.numberLong() < 0
numberLongNegative(e) ==
    CASE e.type = "NumberInt" -> e.val < 0
      [] e.type = "NumberLong" -> e.val.hi < 0
      [] e.type = "NumberDouble" -> e.val.range = "int" /\ TruncHalves(e.val.halves) < 0
      [] OTHER -> FALSE

\* e.numberInt() == e.numberDouble(), the int promoted to double
numberIntEqualsDouble(e) ==
    CASE e.type = "NumberInt" -> TRUE
      [] e.type = "NumberLong" ->
            \/ e.val.hi = 0 /\ e.val.lo >= 0
            \/ e.val.hi = -1 /\ e.val.lo < 0
      [] e.type = "NumberDouble" ->
            e.val.range = "int" /\ 2 * TruncHalves(e.val.halves) = e.val.halves
      [] OTHER -> FALSE

trueValue(e) ==
    CASE e.type = "Bool" -> e.val
      [] e.type = "NumberInt" -> e.val # 0
      [] e.type = "NumberLong" -> ~(e.val.hi = 0 /\ e.val.lo = 0)
      [] e.type = "NumberDouble" -> ~(e.val.range = "int" /\ e.val.halves = 0)
      [] e.type \in {"Null", "EOO", "Undefined"} -> FALSE
      [] OTHER -> TRUE

\* The extended-operator lookup of the value model; def is returned for a
\* name that is no operator.
getGtLtOp(e, def) ==
    CASE e.name = "$lt" -> "LT"
      [] e.name = "$lte" -> "LTE"
      [] e.name = "$gt" -> "GT"
      [] e.name = "$gte" -> "GTE"
      [] e.name = "$ne" -> "NE"
      [] e.name = "$in" -> "opIN"
      [] e.name = "$nin" -> "NIN"
      [] e.name = "$size" -> "opSIZE"
      [] e.name = "$exists" -> "opEXISTS"
      [] e.name = "$type" -> "opTYPE"
      [] e.name = "$mod" -> "opMOD"
      [] e.name = "$options" -> "opOPTIONS"
      [] e.name = "$regex" -> "opREGEX"
      [] e.name = "$elemMatch" -> "opELEM_MATCH"
      [] e.name = "$all" -> "opALL"
      [] e.name = "$within" -> "opWITHIN"
      [] e.name = "$geoIntersects" -> "opGEO_INTERSECTS"
      [] OTHER -> def

\* The first character of a field name is '$'.
DollarNames == {"$or", "$and", "$nor", "$atomic", "$isolated", "$where", "$text",
                "$comment", "$ref", "$id", "$db", "$eq", "$not", "$lt", "$lte", "$gt",
                "$gte", "$ne", "$in", "$nin", "$size", "$exists", "$type", "$mod",
                "$options", "$regex", "$elemMatch", "$all", "$within", "$geoIntersects",
                "$near", "$nearSphere", "$geoNear", "$maxDistance", "$minDistance",
                "$bogus"}

startsWithDollar(n) == n \in DollarNames

\* obj.toString(), as the sequence of the names and scalars it prints.
RECURSIVE toString(_)
RECURSIVE toStringFrom(_, _)
toStringFrom(obj, i) ==
    IF i > Len(obj) THEN <<>>
    ELSE <<obj[i].name>>
         \o (IF isABSONObj(obj[i]) THEN toString(obj[i].val)
             ELSE IF obj[i].type = "String" THEN <<obj[i].val>>
             ELSE <<ToString(obj[i].val)>>)
         \o toStringFrom(obj, i + 1)
toString(obj) == <<"{">> \o toStringFrom(obj, 1) \o <<"}">>

(***************************************************************************)
(* Match expressions and statuses.                                         *)
(***************************************************************************)
Node(t, p, a, k) == [type |-> t, path |-> p, arg |-> a, kids |-> k]

NullExpr == Node("NULL", "", <<>>, <<>>)

Event(fn, level, name, obj, root, ret) ==
    [fn |-> fn, level |-> level, name |-> name, obj |-> obj, root |-> root, ret |-> ret]

StatusOK(expr, root, log) ==
    [ok |-> TRUE, code |-> "OK", msg |-> <<>>, expr |-> expr, root |-> root, log |-> log]

Status(code, msg, log) ==
    [ok |-> FALSE, code |-> code, msg |-> msg, expr |-> NullExpr, root |-> <<>>, log |-> log]

\* The callee's status with the caller's own events put in front of its log.
After(log, s) == [s EXCEPT !.log = log \o s.log]

RECURSIVE hasNode(_, _)
RECURSIVE hasNodeFrom(_, _, _)
hasNodeFrom(root, type, i) ==
    IF i > Len(root.kids) THEN FALSE
    ELSE IF hasNode(root.kids[i], type) THEN TRUE
    ELSE hasNodeFrom(root, type, i + 1)
hasNode(root, type) ==
    IF type = root.type THEN TRUE ELSE hasNodeFrom(root, type, 1)

(***************************************************************************)
(* The callback registry.                                                  *)
(***************************************************************************)
\* WhereCallback::parseWhere: the default returns an error, an installed
\* callback builds the WHERE node.
parseWhere(where) ==
    IF whereCallback = "default"
    THEN Status("NoWhereParseContext", <<"no context for parsing $where">>, <<>>)
    ELSE StatusOK(Node("WHERE", "", <<where>>, <<>>), <<>>, <<>>)

expressionParserGeoCallback(name, type, section) ==
    LET call == <<Event("expressionParserGeoCallback", 0, name, section, <<>>, NullExpr)>>
    IN IF geoCallback = "default"
       THEN Status("BadValue", <<"geo not linked in">>, call)
       ELSE StatusOK(Node("GEO", name, <<type, section>>, <<>>), <<>>, call)

expressionParserTextCallback(queryObj) ==
    IF textCallback = "default"
    THEN Status("BadValue", <<"$text not linked in">>, <<>>)
    ELSE StatusOK(Node("TEXT", "", <<queryObj>>, <<>>), <<>>, <<>>)

(***************************************************************************)
(* The parser.                                                             *)
(***************************************************************************)
RECURSIVE _parse(_, _)
RECURSIVE _parseElements(_, _, _, _)
RECURSIVE _parseElement(_, _, _)
RECURSIVE _parseTreeList(_, _, _)
RECURSIVE _parseSub(_, _, _)
RECURSIVE _parseSubElements(_, _, _, _)
RECURSIVE _parseSubField(_, _, _, _)
RECURSIVE _parseNot(_, _, _)
RECURSIVE _parseElemMatch(_, _, _)
RECURSIVE _parseAll(_, _, _)
RECURSIVE _parseAllElemMatch(_, _, _, _)

\* The depth check letting one more level through.
DepthExceededLate(level) == level > kMaximumTreeDepth + 1

\* level > kMaximumTreeDepth, the check at the entry of _parse and _parseSub
DepthExceeded(level) == level > kMaximumTreeDepth

DepthStatus(obj, log) ==
    Status("BadValue",
           <<"exceeded maximum query tree depth of ", ToString(kMaximumTreeDepth), " at ">>
               \o toString(obj),
           log)

NotOf(child) == Node("NOT", "", <<>>, <<child>>)

_parseComparison(name, cmp, e) ==
    IF cmp # "EQ" /\ e.type = "RegEx"
    THEN Status("BadValue",
                <<"Can't have RegEx as arg to predicate over field '", name, "'.">>, <<>>)
    ELSE StatusOK(Node(cmp, name, <<e>>, <<>>), <<>>, <<>>)

_parseRegexElement(name, e) ==
    IF e.type # "RegEx"
    THEN Status("BadValue", <<"not a regex">>, <<>>)
    ELSE StatusOK(Node("REGEX", name, <<e.val[1], e.val[2]>>, <<>>), <<>>, <<>>)

\* The loop of _isDBRefDocument from element i on; found is <<hasRef, hasID, hasDB>>.
RECURSIVE DBRefScan(_, _, _)
DBRefScan(obj, i, found) ==
    IF ~(i <= Len(obj) /\ ~(found[1] /\ found[2])) THEN found
    ELSE LET fieldName == obj[i].name
         IN DBRefScan(obj, i + 1,
                CASE ~found[1] /\ fieldName = "$ref" -> <<TRUE, found[2], found[3]>>
                  [] ~found[2] /\ fieldName = "$id" -> <<found[1], TRUE, found[3]>>
                  [] ~found[3] /\ fieldName = "$db" -> <<found[1], found[2], TRUE>>
                  [] OTHER -> found)

\* _isDBRefDocument taking either of $ref and $id for a complete DBRef.
_isDBRefDocumentEither(obj, allowIncompleteDBRef) ==
    LET found == DBRefScan(obj, 1, <<FALSE, FALSE, FALSE>>)
    IN IF allowIncompleteDBRef
       THEN found[1] \/ found[2] \/ found[3]
       ELSE found[1] \/ found[2]

_isDBRefDocument(obj, allowIncompleteDBRef) ==
    LET found == DBRefScan(obj, 1, <<FALSE, FALSE, FALSE>>)
    IN IF allowIncompleteDBRef
       THEN found[1] \/ found[2] \/ found[3]
       ELSE found[1] /\ found[2]

_isExpressionDocument(e, allowIncompleteDBRef) ==
    IF e.type # "Object" THEN FALSE
    ELSE IF Len(e.val) = 0 THEN FALSE
    ELSE IF ~startsWithDollar(firstElement(e.val).name) THEN FALSE
    ELSE IF _isDBRefDocument(e.val, allowIncompleteDBRef) THEN FALSE
    ELSE TRUE

\* The record of a call _isExpressionDocument(e, allowIncompleteDBRef) in the
\* log: level is 1 for allowIncompleteDBRef, ret the boolean returned.
Probe(e, allowIncompleteDBRef) ==
    <<Event("_isExpressionDocument", IF allowIncompleteDBRef THEN 1 ELSE 0, e.name, <<e>>, <<>>,
            Node(IF _isExpressionDocument(e, allowIncompleteDBRef) THEN "true" ELSE "false",
                 "", <<>>, <<>>))>>

\* The implicit AND returned as it is, whatever it holds.
CollapseNever(root) == Node("AND", "", <<>>, root)

\* The implicit AND of _parse at its return: a single child is returned
\* unwrapped.
Collapse(root) ==
    IF Len(root) = 1 THEN root[1] ELSE Node("AND", "", <<>>, root)

\* The peek taking an embedded object or a geo key alone for a geo query.
GeoPeekEither(firstElt) ==
    \/ isABSONObj(firstElt)
    \/ firstElt.name \in {"$near", "$nearSphere", "$geoNear", "$maxDistance", "$minDistance"}

\* The peek of _parseSub at the first element of the sub-document.
GeoPeek(firstElt) ==
    /\ isABSONObj(firstElt)
    /\ firstElt.name \in {"$near", "$nearSphere", "$geoNear", "$maxDistance", "$minDistance"}

\* The size a $size argument of a legal type gives.
SizeOf(e) ==
    IF e.type = "String" THEN 0
    ELSE IF e.type = "NumberInt" \/ e.type = "NumberLong"
         THEN IF numberLongNegative(e) THEN -1 ELSE numberInt(e)
    ELSE IF numberIntEqualsDouble(e) THEN numberInt(e) ELSE -1

_parseSize(name, e) ==
    IF e.type \in {"String", "NumberInt", "NumberLong", "NumberDouble"}
    THEN StatusOK(Node("SIZE", name, <<SizeOf(e)>>, <<>>), <<>>, <<>>)
    ELSE Status("BadValue", <<"$size needs a number">>, <<>>)

_parseMOD(name, e) ==
    IF e.type # "Array"
    THEN Status("BadValue", <<"malformed mod, needs to be an array">>, <<>>)
    ELSE LET arr == e.val
         IN IF Len(arr) < 1
            THEN Status("BadValue", <<"malformed mod, not enough elements">>, <<>>)
            ELSE IF ~isNumber(arr[1])
            THEN Status("BadValue", <<"malformed mod, divisor not a number">>, <<>>)
            ELSE IF Len(arr) < 2
            THEN Status("BadValue", <<"malformed mod, not enough elements">>, <<>>)
            ELSE IF ~isNumber(arr[1])
            THEN Status("BadValue", <<"malformed mod, remainder not a number">>, <<>>)
            ELSE IF Len(arr) > 2
            THEN Status("BadValue", <<"malformed mod, too many elements">>, <<>>)
            ELSE StatusOK(Node("MOD", name, <<numberInt(arr[1]), numberInt(arr[2])>>, <<>>),
                          <<>>, <<>>)

\* The loop of _parseRegexDocument from element i on; acc is <<regex, regexOptions>>.
RECURSIVE RegexScan(_, _, _, _)
RegexScan(name, doc, i, acc) ==
    IF i > Len(doc)
    THEN StatusOK(Node("REGEX", name, acc, <<>>), <<>>, <<>>)
    ELSE LET e == doc[i]
             op == getGtLtOp(e, "Equality")
         IN CASE op = "opREGEX" ->
                    IF e.type = "String" THEN RegexScan(name, doc, i + 1, <<e.val, acc[2]>>)
                    ELSE IF e.type = "RegEx"
                         THEN RegexScan(name, doc, i + 1, <<e.val[1], e.val[2]>>)
                    ELSE Status("BadValue", <<"$regex has to be a string">>, <<>>)
              [] op = "opOPTIONS" ->
                    IF e.type # "String"
                    THEN Status("BadValue", <<"$options has to be a string">>, <<>>)
                    ELSE RegexScan(name, doc, i + 1, <<acc[1], e.val>>)
              [] OTHER -> RegexScan(name, doc, i + 1, acc)

_parseRegexDocument(name, doc) == RegexScan(name, doc, 1, <<"", "">>)

\* The loop of _parseArrayFilterEntries from element i on; entries is
\* <<equalities, regexes>>.
RECURSIVE ArrayFilterScan(_, _, _)
ArrayFilterScan(theArray, i, entries) ==
    IF i > Len(theArray) THEN StatusOK(Node("ENTRIES", "", entries, <<>>), <<>>, <<>>)
    ELSE LET e == theArray[i]
         IN IF _isExpressionDocument(e, FALSE)
            THEN Status("BadValue", <<"cannot nest $ under ", "$in">>, <<>>)
            ELSE IF e.type = "RegEx"
            THEN ArrayFilterScan(theArray, i + 1,
                     <<entries[1],
                       Append(entries[2], Node("REGEX", "", <<e.val[1], e.val[2]>>, <<>>))>>)
            ELSE ArrayFilterScan(theArray, i + 1, <<Append(entries[1], e), entries[2]>>)

_parseArrayFilterEntries(theArray) == ArrayFilterScan(theArray, 1, <<<<>>, <<>>>>)

\* TypeMatchExpression::typeAliasMap
typeAliasMap == [alias \in {"number", "string", "object"} |->
                    CASE alias = "number" -> 1 [] alias = "string" -> 2 [] OTHER -> 3]

_parseType(name, elt) ==
    IF ~isNumber(elt) /\ elt.type # "String"
    THEN Status("TypeMismatch", <<"argument to $type is not a number or a string">>, <<>>)
    ELSE IF isNumber(elt)
    THEN StatusOK(Node("TYPE", name,
                       <<IF elt.type # "NumberInt" /\ ~numberIntEqualsDouble(elt)
                         THEN -1 ELSE numberInt(elt)>>, <<>>), <<>>, <<>>)
    ELSE IF elt.val \notin DOMAIN typeAliasMap
    THEN Status("BadValue", <<"unknown string alias for $type: ", elt.val>>, <<>>)
    ELSE StatusOK(Node("TYPE", name, <<typeAliasMap[elt.val]>>, <<>>), <<>>, <<>>)

\* The value case decided with complete DBRefs only.
isElemMatchValueStrict(e) ==
    IF _isExpressionDocument(e, FALSE)
    THEN LET elt == firstElement(e.val)
         IN elt.name # "$and" /\ elt.name # "$nor" /\ elt.name # "$or" /\ elt.name # "$where"
    ELSE FALSE

\* The value case of $elemMatch applies.
isElemMatchValue(e) ==
    IF _isExpressionDocument(e, TRUE)
    THEN LET elt == firstElement(e.val)
         IN elt.name # "$and" /\ elt.name # "$nor" /\ elt.name # "$or" /\ elt.name # "$where"
    ELSE FALSE

\* The scan looking at the root of the subtree only.
ContainsWhereAtRoot(sub) == sub.type = "WHERE"

\* The scan of an object-case $elemMatch subtree for a WHERE node.
ContainsWhere(sub) == hasNode(sub, "WHERE")

\* root->add(s.getValue().release()) after if (!s.isOK()) return s
AddExpr(s) == IF ~s.ok THEN s ELSE StatusOK(NullExpr, <<s.expr>>, s.log)

\* if (s.getValue()) root->add(s.getValue().release()) after the isOK test
AddIfAny(s) ==
    IF ~s.ok THEN s
    ELSE StatusOK(NullExpr, IF s.expr.type = "NULL" THEN <<>> ELSE <<s.expr>>, s.log)

\* One round of a loop followed by the rounds after it: the first failure
\* is returned, otherwise the children are added in order.
Then(first, rest) ==
    IF ~first.ok THEN first
    ELSE IF ~rest.ok THEN After(first.log, rest)
    ELSE StatusOK(NullExpr, first.root \o rest.root, first.log \o rest.log)

\* NotMatchExpression::init(s.getValue().release()) after the isOK test
Negate(s) == IF ~s.ok THEN s ELSE StatusOK(NotOf(s.expr), <<>>, s.log)

\* Every document taken for the top-level one.
IsTopLevelAlways(level) == TRUE

\* bool topLevel = (level == 0)
IsTopLevel(level) == level = 0

\* The return of _parse after its loop.
ParseReturn(obj, level, s) ==
    LET enter == <<Event("_parse", level, "", obj, <<>>, NullExpr)>>
    IN IF ~s.ok THEN After(enter, s)
       ELSE StatusOK(Collapse(s.root), <<>>,
                     enter \o s.log
                           \o <<Event("_parse.return", level, "", obj, s.root,
                                      Collapse(s.root))>>)

\* StatusWithMatchExpression _parse(const BSONObj& obj, int level)
_parse(obj, level) ==
    IF DepthExceeded(level)
    THEN DepthStatus(obj, <<Event("_parse", level, "", obj, <<>>, NullExpr)>>)
    ELSE ParseReturn(obj, level, _parseElements(obj, 1, IsTopLevel(level), level + 1))

\* The while loop of _parse from element i on; root of the result is what
\* the elements from i on add to the implicit AND.
_parseElements(obj, i, topLevel, level) ==
    IF i > Len(obj) THEN StatusOK(NullExpr, <<>>, <<>>)
    ELSE Then(_parseElement(obj[i], topLevel, level),
              _parseElements(obj, i + 1, topLevel, level))

\* The logical node a top-level operator of the given name builds.
TreeType(name) ==
    CASE name = "$or" -> "OR" [] name = "$and" -> "AND" [] OTHER -> "NOR"

\* The operator named in the message for a non-array argument.
TreeNeedsArray(name) == IF name = "$or" THEN "$or" ELSE "and"

\* One round of the while loop of _parse.
_parseElement(e, topLevel, level) ==
    IF startsWithDollar(e.name)
    THEN CASE e.name = "$or" \/ e.name = "$and" \/ e.name = "$nor" ->
                IF e.type # "Array"
                THEN Status("BadValue", <<TreeNeedsArray(e.name), " needs an array">>, <<>>)
                ELSE AddExpr(_parseTreeList(e.val, TreeType(e.name), level))
           [] e.name = "$atomic" \/ e.name = "$isolated" ->
                IF ~topLevel
                THEN Status("BadValue",
                            <<"$atomic", "/", "$isolated", " has to be at the top level">>, <<>>)
                ELSE IF trueValue(e)
                THEN StatusOK(NullExpr, <<Node("ATOMIC", "", <<>>, <<>>)>>, <<>>)
                ELSE StatusOK(NullExpr, <<>>, <<>>)
           [] e.name = "$where" -> AddExpr(parseWhere(e))
           [] e.name = "$text" ->
                IF e.type # "Object"
                THEN Status("BadValue", <<"$text", " expects an object">>, <<>>)
                ELSE AddExpr(expressionParserTextCallback(e.val))
           [] e.name = "$comment" -> StatusOK(NullExpr, <<>>, <<>>)
           [] e.name = "$ref" \/ e.name = "$id" \/ e.name = "$db" ->
                StatusOK(NullExpr, <<Node("EQ", e.name, <<e>>, <<>>)>>, <<>>)
           [] OTHER -> Status("BadValue", <<"unknown top level operator: ", e.name>>, <<>>)
    ELSE IF _isExpressionDocument(e, FALSE)
    THEN After(Probe(e, FALSE), _parseSub(e.name, e.val, level))
    ELSE IF e.type = "RegEx"
    THEN After(Probe(e, FALSE), AddExpr(_parseRegexElement(e.name, e)))
    ELSE StatusOK(NullExpr, <<Node("EQ", e.name, <<e>>, <<>>)>>, Probe(e, FALSE))

\* _parseTreeList(arr, out, level): every item is parsed as a nested predicate
\* and added to the logical node out, here the node of the given type.
RECURSIVE TreeListFrom(_, _, _)
TreeListFrom(arr, i, level) ==
    IF i > Len(arr) THEN StatusOK(NullExpr, <<>>, <<>>)
    ELSE IF arr[i].type # "Object"
    THEN Status("BadValue", <<"$or/$and/$nor entries need to be full objects">>, <<>>)
    ELSE Then(AddExpr(_parse(arr[i].val, level)), TreeListFrom(arr, i + 1, level))

\* The node that takes the children a loop collected.
Gather(type, path, s) ==
    IF ~s.ok THEN s ELSE StatusOK(Node(type, path, <<>>, s.root), <<>>, s.log)

_parseTreeList(arr, out, level) == Gather(out, "", TreeListFrom(arr, 1, level))

\* The return of _parseSub after the geo callback or its loop.
SubReturn(name, sub, level, s) ==
    LET enter == <<Event("_parseSub", level, name, sub, <<>>, NullExpr)>>
    IN IF ~s.ok THEN After(enter, s)
       ELSE StatusOK(NullExpr, s.root,
                     enter \o s.log
                           \o <<Event("_parseSub.return", level, name, sub, s.root, NullExpr)>>)

\* _parseSub handing its own level on to the fields, without level++.
_parseSubFlat(name, sub, level) ==
    IF DepthExceeded(level)
    THEN DepthStatus(sub, <<Event("_parseSub", level, name, sub, <<>>, NullExpr)>>)
    ELSE IF Len(sub) > 0 /\ GeoPeek(firstElement(sub))
    THEN SubReturn(name, sub, level,
                   AddExpr(expressionParserGeoCallback(
                               name, getGtLtOp(firstElement(sub), "Equality"), sub)))
    ELSE SubReturn(name, sub, level, _parseSubElements(name, sub, 1, level))

\* Status _parseSub(const char* name, const BSONObj& sub, AndMatchExpression* root, int level)
_parseSub(name, sub, level) ==
    IF DepthExceeded(level)
    THEN DepthStatus(sub, <<Event("_parseSub", level, name, sub, <<>>, NullExpr)>>)
    ELSE IF Len(sub) > 0 /\ GeoPeek(firstElement(sub))
    THEN SubReturn(name, sub, level,
                   AddExpr(expressionParserGeoCallback(
                               name, getGtLtOp(firstElement(sub), "Equality"), sub)))
    ELSE SubReturn(name, sub, level, _parseSubElements(name, sub, 1, level + 1))

\* The while loop of _parseSub from element j on.
_parseSubElements(name, sub, j, level) ==
    IF j > Len(sub) THEN StatusOK(NullExpr, <<>>, <<>>)
    ELSE Then(After(<<Event("_parseSubField", level, name, <<sub[j]>>, <<>>, NullExpr)>>,
                    AddIfAny(_parseSubField(sub, name, sub[j], level))),
              _parseSubElements(name, sub, j + 1, level))

\* case BSONObj::opOPTIONS of _parseSubField: some key of context is a $regex
OptionsHasRegex(context) ==
    \E i \in 1..Len(context) : getGtLtOp(context[i], "-1") = "opREGEX"

\* The IN node over the entries _parseArrayFilterEntries collected.
InOf(name, s) == IF ~s.ok THEN s ELSE StatusOK(Node("IN", name, s.expr.arg, <<>>), <<>>, <<>>)

_parseSubField(context, name, e, level) ==
    IF e.name = "$eq" THEN _parseComparison(name, "EQ", e)
    ELSE IF e.name = "$not" THEN _parseNot(name, e, level)
    ELSE CASE getGtLtOp(e, "-1") = "-1" ->
                    IF e.name = "$where"
                    THEN Status("BadValue", <<"$where", " cannot be applied to a field">>, <<>>)
                    ELSE Status("BadValue", <<"unknown operator: ", e.name>>, <<>>)
           [] getGtLtOp(e, "-1") \in {"LT", "LTE", "GT", "GTE"} ->
                    _parseComparison(name, getGtLtOp(e, "-1"), e)
           [] getGtLtOp(e, "-1") = "NE" ->
                    IF e.type = "RegEx"
                    THEN Status("BadValue", <<"Can't have regex as arg to ", "$ne", ".">>, <<>>)
                    ELSE Negate(_parseComparison(name, "EQ", e))
           [] getGtLtOp(e, "-1") = "Equality" -> _parseComparison(name, "EQ", e)
           [] getGtLtOp(e, "-1") = "opIN" ->
                    IF e.type # "Array"
                    THEN Status("BadValue", <<"$in", " needs an array">>, <<>>)
                    ELSE InOf(name, _parseArrayFilterEntries(e.val))
           [] getGtLtOp(e, "-1") = "NIN" ->
                    IF e.type # "Array"
                    THEN Status("BadValue", <<"$nin", " needs an array">>, <<>>)
                    ELSE Negate(InOf(name, _parseArrayFilterEntries(e.val)))
           [] getGtLtOp(e, "-1") = "opSIZE" -> _parseSize(name, e)
           [] getGtLtOp(e, "-1") = "opEXISTS" ->
                    IF e.type = "EOO"
                    THEN Status("BadValue", <<"$exists", " can't be eoo">>, <<>>)
                    ELSE IF trueValue(e)
                    THEN StatusOK(Node("EXISTS", name, <<>>, <<>>), <<>>, <<>>)
                    ELSE StatusOK(NotOf(Node("EXISTS", name, <<>>, <<>>)), <<>>, <<>>)
           [] getGtLtOp(e, "-1") = "opTYPE" -> _parseType(name, e)
           [] getGtLtOp(e, "-1") = "opMOD" -> _parseMOD(name, e)
           [] getGtLtOp(e, "-1") = "opOPTIONS" ->
                    IF OptionsHasRegex(context) THEN StatusOK(NullExpr, <<>>, <<>>)
                    ELSE Status("BadValue", <<"$options", " needs a ", "$regex">>, <<>>)
           [] getGtLtOp(e, "-1") = "opREGEX" -> _parseRegexDocument(name, context)
           [] getGtLtOp(e, "-1") = "opELEM_MATCH" -> _parseElemMatch(name, e, level)
           [] getGtLtOp(e, "-1") = "opALL" -> _parseAll(name, e, level)
           [] getGtLtOp(e, "-1") \in {"opWITHIN", "opGEO_INTERSECTS"} ->
                    expressionParserGeoCallback(name, getGtLtOp(e, "-1"), context)
           [] OTHER -> Status("BadValue", <<"not handled: ", e.name>>, <<>>)

\* $not: a regex, or a non-empty document parsed like a _parseSub body into a
\* synthetic AND that becomes the child of the NOT.
_parseNot(name, e, level) ==
    IF e.type = "RegEx" THEN Negate(_parseRegexElement(name, e))
    ELSE IF e.type # "Object"
    THEN Status("BadValue", <<"$not", " needs a regex or a document">>, <<>>)
    ELSE IF Len(e.val) = 0
    THEN Status("BadValue", <<"$not", " cannot be empty">>, <<>>)
    ELSE Negate(Gather("AND", "", _parseSub(name, e.val, level)))

\* The return of the value case of _parseElemMatch.
ElemMatchValueReturn(name, e, level, s) ==
    IF ~s.ok THEN After(Probe(e, TRUE), s)
    ELSE StatusOK(Node("ELEM_MATCH_VALUE", name, <<>>, s.root), <<>>,
                  Probe(e, TRUE) \o s.log
                      \o <<Event("_parseElemMatch.return", level, name, <<e>>, <<>>,
                                 Node("ELEM_MATCH_VALUE", name, <<>>, s.root))>>)

\* The return of the object case of _parseElemMatch.
ElemMatchObjectReturn(name, e, level, subRaw) ==
    IF ~subRaw.ok THEN After(Probe(e, TRUE), subRaw)
    ELSE IF ContainsWhere(subRaw.expr)
    THEN Status("BadValue", <<"$elemMatch", " cannot contain ", "$where", " expression">>,
                Probe(e, TRUE) \o subRaw.log)
    ELSE StatusOK(Node("ELEM_MATCH_OBJECT", name, <<>>, <<subRaw.expr>>), <<>>,
                  Probe(e, TRUE) \o subRaw.log
                      \o <<Event("_parseElemMatch.return", level, name, <<e>>, <<>>,
                                 Node("ELEM_MATCH_OBJECT", name, <<>>, <<subRaw.expr>>))>>)

\* The value case parsed under the name of the field.
_parseElemMatchNamed(name, e, level) ==
    IF e.type # "Object"
    THEN Status("BadValue", <<"$elemMatch", " needs an Object">>, <<>>)
    ELSE IF isElemMatchValue(e)
    THEN ElemMatchValueReturn(name, e, level, _parseSub(name, e.val, level))
    ELSE ElemMatchObjectReturn(name, e, level, _parse(e.val, level))

_parseElemMatch(name, e, level) ==
    IF e.type # "Object"
    THEN Status("BadValue", <<"$elemMatch", " needs an Object">>, <<>>)
    ELSE IF isElemMatchValue(e)
    THEN ElemMatchValueReturn(name, e, level, _parseSub("", e.val, level))
    ELSE ElemMatchObjectReturn(name, e, level, _parse(e.val, level))

\* The loop refusing an item that has keys after its $elemMatch.
_parseAllElemMatchOnly(name, arr, i, level) ==
    IF i > Len(arr) THEN StatusOK(NullExpr, <<>>, <<>>)
    ELSE IF arr[i].type # "Object"
    THEN Status("BadValue", <<"$all", "/", "$elemMatch", " has to be consistent">>, <<>>)
    ELSE IF firstElement(arr[i].val).name # "$elemMatch" \/ Len(arr[i].val) > 1
    THEN Status("BadValue", <<"$all", "/", "$elemMatch", " has to be consistent">>, <<>>)
    ELSE Then(AddExpr(_parseElemMatch(name, firstElement(arr[i].val), level)),
              _parseAllElemMatch(name, arr, i + 1, level))

\* The $all : [ { $elemMatch : ... } ... ] loop of _parseAll from item i on.
_parseAllElemMatch(name, arr, i, level) ==
    IF i > Len(arr) THEN StatusOK(NullExpr, <<>>, <<>>)
    ELSE IF arr[i].type # "Object"
    THEN Status("BadValue", <<"$all", "/", "$elemMatch", " has to be consistent">>, <<>>)
    ELSE IF firstElement(arr[i].val).name # "$elemMatch"
    THEN Status("BadValue", <<"$all", "/", "$elemMatch", " has to be consistent">>, <<>>)
    ELSE Then(AddExpr(_parseElemMatch(name, firstElement(arr[i].val), level)),
              _parseAllElemMatch(name, arr, i + 1, level))

\* The scalar loop of _parseAll from item i on.
RECURSIVE AllScalarFrom(_, _, _)
AllScalarFrom(name, arr, i) ==
    IF i > Len(arr) THEN StatusOK(NullExpr, <<>>, <<>>)
    ELSE IF arr[i].type = "RegEx"
    THEN Then(StatusOK(NullExpr,
                       <<Node("REGEX", name, <<arr[i].val[1], arr[i].val[2]>>, <<>>)>>, <<>>),
              AllScalarFrom(name, arr, i + 1))
    ELSE IF arr[i].type = "Object" /\ getGtLtOp(firstElement(arr[i].val), "-1") # "-1"
    THEN Status("BadValue", <<"no $ expressions in ", "$all">>, <<>>)
    ELSE Then(StatusOK(NullExpr, <<Node("EQ", name, <<arr[i]>>, <<>>)>>, <<>>),
              AllScalarFrom(name, arr, i + 1))

\* The empty AND returned as it is.
FalseIfEmptyNever(s) == s

\* if (myAnd->numChildren() == 0) return FalseMatchExpression
FalseIfEmpty(s) ==
    IF s.ok /\ Len(s.expr.kids) = 0
    THEN StatusOK(Node("FALSE", "", <<>>, <<>>), <<>>, <<>>)
    ELSE s

_parseAll(name, e, level) ==
    IF e.type # "Array"
    THEN Status("BadValue", <<"$all", " needs an array">>, <<>>)
    ELSE IF firstElement(e.val).type = "Object"
            /\ firstElement(firstElement(e.val).val).name = "$elemMatch"
    THEN Gather("AND", "", _parseAllElemMatch(name, e.val, 1, level))
    ELSE FalseIfEmpty(Gather("AND", "", AllScalarFrom(name, e.val, 1)))

(***************************************************************************)
(* Input predicates.                                                       *)
(***************************************************************************)
\* The end-to-end scenarios of the specification.
Scenarios ==
    { <<I32("a", 1)>>,
      <<Doc("a", <<I32("$gt", 3), I32("$lt", 10)>>)>>,
      <<Arr("$or", <<Doc("0", <<I32("a", 1)>>), Doc("1", <<I32("b", 2)>>)>>)>>,
      <<Doc("a", <<I32("$ne", 5)>>)>>,
      <<Doc("a", <<Rx("$ne", "x", "")>>)>>,
      <<Doc("a", <<Arr("$all", <<>>)>>)>>,
      <<Doc("a", <<Arr("$all", <<Doc("0", <<Doc("$elemMatch", <<I32("b", 1)>>)>>),
                                 I32("1", 5)>>)>>)>>,
      <<Str("$options", "i")>>,
      <<Doc("a", <<Str("$regex", "x"), Str("$options", "i")>>)>>,
      <<Doc("a", <<Str("$options", "i"), Str("$regex", "x")>>)>>,
      <<Bool("$atomic", TRUE)>>,
      <<Doc("a", <<Bool("$atomic", TRUE)>>)>>,
      <<Str("$ref", "c"), I32("$id", 1)>>,
      <<Doc("x", <<Str("$ref", "c"), I32("$id", 1)>>)>> }

Seq1(S) == {<<x>> : x \in S}
Seq2(S, T) == {<<x, y>> : x \in S, y \in T}

Leaf == <<I32("b", 1)>>

\* Operator elements of a field sub-document.
CoreOps ==
    { I32("$gt", 1), Str("$eq", "s"), I32("$ne", 1), Bool("$exists", FALSE), I32("$size", 2),
      Str("$regex", "x"), Str("$options", "i"), I32("$where", 1), I32("$bogus", 1),
      Str("$ref", "c"), I32("$id", 1), Doc("$near", Leaf), I32("$maxDistance", 1),
      Doc("$gt", Leaf), Doc("$within", Leaf), Bool("$type", TRUE) }

ElemMatchArgs ==
    { <<>>, Leaf, <<I32("$gt", 1)>>, <<I32("$gt", 1), I32("$lt", 5)>>,
      <<Str("$where", "f")>>, <<I32("b", 1), Str("$where", "f")>>,
      <<Doc("$where", Leaf)>>,
      <<Arr("$or", <<Doc("0", Leaf)>>)>>, <<Arr("$and", <<Doc("0", Leaf), Doc("1", Leaf)>>)>>,
      <<Arr("$nor", <<Doc("0", <<Str("$where", "f")>>)>>)>>,
      <<Arr("$or", <<Doc("0", Leaf), Doc("1", <<Str("$where", "f")>>)>>)>>,
      <<Doc("b", <<Str("$where", "f")>>)>>,
      <<Doc("b", <<I32("c", 1), Str("$where", "f")>>)>>,
      <<Doc("b", <<Doc("$eq", <<Str("$where", "f")>>)>>)>>,
      <<Doc("b", <<Doc("$elemMatch", <<Str("$where", "f")>>)>>)>>,
      <<Doc("b", <<Doc("$elemMatch", <<I32("$gt", 1), Str("$where", "f")>>)>>)>>,
      <<Doc("b", <<Doc("$not", <<Doc("$elemMatch", <<I32("c", 1), Str("$where", "f")>>)>>)>>)>>,
      <<Doc("$elemMatch", <<Str("$where", "f")>>)>>,
      <<Doc("$near", Leaf), Str("$where", "f")>>,
      <<Doc("b", <<Doc("$near", Leaf), Str("$where", "f")>>)>>,
      <<Doc("b", <<Arr("$all", <<Doc("0", <<Doc("$elemMatch", <<Str("$where", "f")>>)>>)>>)>>)>>,
      <<Doc("b", <<Arr("$all", <<Doc("0", <<Doc("$elemMatch", Leaf), Str("$where", "f")>>)>>)>>)>>,
      <<Bool("$type", TRUE), Str("$where", "f")>>,
      <<Str("$ref", "c")>>, <<I32("$id", 1), I32("$gt", 1)>>, <<Str("$db", "d"), I32("b", 1)>>,
      <<I32("$gt", 1), Str("$db", "d")>>, <<Str("$ref", "c"), I32("$id", 1)>>,
      <<I32("b", 1), Str("$ref", "c")>>, <<Bool("$atomic", TRUE)>>, <<I32("$bogus", 1)>>,
      <<Doc("$not", <<I32("$gt", 1)>>)>>, <<Doc("$gt", Leaf)>>,
      <<Str("$regex", "x"), Str("$options", "i")>> }

ElemMatchOps ==
    {Doc("$elemMatch", x) : x \in ElemMatchArgs}
        \cup {I32("$elemMatch", 1), Arr("$elemMatch", <<Doc("0", Leaf)>>)}

AllOps ==
    { Arr("$all", <<>>), Arr("$all", <<I32("0", 1), Rx("1", "x", "")>>),
      Arr("$all", <<Doc("0", <<I32("$gt", 1)>>)>>), Arr("$all", <<Doc("0", Leaf)>>),
      Arr("$all", <<Doc("0", <<Doc("$elemMatch", Leaf)>>),
                    Doc("1", <<Doc("$elemMatch", <<I32("$gt", 1)>>)>>)>>),
      Arr("$all", <<Doc("0", <<Doc("$elemMatch", Leaf), I32("c", 1)>>)>>),
      Arr("$all", <<Doc("0", <<Doc("$elemMatch", Leaf)>>), I32("1", 5)>>),
      Arr("$all", <<Doc("0", <<Doc("$elemMatch", Leaf)>>), Doc("1", Leaf)>>),
      I32("$all", 1) }

MoreOps ==
    { Rx("$gt", "x", ""), I32("$gte", 1), I32("$lt", 1), I32("$lte", 1), Rx("$ne", "x", ""),
      Rx("$eq", "x", ""), Bool("$exists", TRUE), Null("$size"), Str("$type", "string"),
      Str("$type", "bogus"), I32("$type", 2),
      Arr("$in", <<I32("0", 1), Rx("1", "x", "")>>), I32("$in", 1), I32("$nin", 1),
      Arr("$nin", <<I32("0", 1)>>), Arr("$in", <<Doc("0", <<I32("$gt", 1)>>)>>),
      Arr("$nin", <<Doc("0", <<I32("$gt", 1)>>)>>),
      Arr("$nin", <<Doc("0", <<Str("$ref", "c"), I32("$id", 1)>>)>>),
      Doc("$not", <<I32("$gt", 1)>>), Rx("$not", "x", ""), Doc("$not", <<>>), I32("$not", 1),
      Doc("$not", <<Str("$regex", "x")>>), Doc("$not", <<Arr("$or", <<Doc("0", Leaf)>>)>>),
      Arr("$near", <<I32("0", 0), I32("1", 0)>>), Doc("$nearSphere", Leaf), Doc("$geoNear", Leaf),
      Doc("$maxDistance", Leaf), Doc("$minDistance", Leaf), I32("$near", 1),
      Doc("$geoIntersects", Leaf), Rx("$regex", "x", "m"), I32("$regex", 1), I32("$options", 1),
      Bool("$atomic", TRUE), Str("$db", "d"), Arr("$or", <<Doc("0", Leaf)>>),
      Arr("$mod", <<I32("0", 2), I32("1", 1)>>) }

SubDocs ==
    Seq1(CoreOps \cup MoreOps \cup ElemMatchOps \cup AllOps)
        \cup Seq2(CoreOps, CoreOps)
        \cup Seq2({Rx("$regex", "x", "m"), Rx("$regex", "x", ""), Str("$regex", "x")},
                  {Str("$options", "i"), I32("$options", 1)})
        \cup Seq2({Str("$options", "i"), I32("$options", 1)},
                  {Rx("$regex", "x", "m"), Rx("$regex", "x", ""), Str("$regex", "x")})
        \cup { <<I32("b", 1), I32("$gt", 1)>>, <<I32("b", 1), Str("$ref", "c"), I32("$id", 1)>>,
               <<I32("$gt", 1), Str("$ref", "c"), I32("$id", 1)>>,
               <<I32("$gt", 1), I32("$id", 1), Str("$db", "d"), Str("$ref", "c")>>,
               <<Str("$ref", "c"), Str("$ref", "c"), I32("$id", 1)>>,
               <<I32("$id", 1), Str("$db", "d"), I32("$gt", 1)>>, <<>> }

\* Predicates on one field.
FieldQueries == {<<Doc("a", sd)>> : sd \in SubDocs}

\* Items of the array of a logical operator.
TreeItems ==
    { Doc("0", Leaf), Doc("0", <<>>), Doc("0", <<I32("b", 1), I32("c", 2)>>),
      Doc("0", <<Str("$where", "f")>>), Doc("0", <<Bool("$atomic", TRUE)>>),
      Doc("0", <<Arr("$or", <<Doc("0", Leaf)>>)>>), Doc("0", <<Doc("b", <<I32("$gt", 1)>>)>>),
      Doc("0", <<Doc("b", <<I32("$gt", 1), I32("$lt", 5)>>)>>), I32("0", 1) }

\* Elements of a predicate document.
TopElems ==
    { I32("a", 1), Rx("a", "x", "m"), Doc("a", Leaf), Doc("a", <<>>),
      Doc("a", <<I32("$gt", 1), I32("$lt", 5)>>), Doc("a", <<I32("$size", 2)>>),
      Doc("a", <<Str("$options", "i")>>), Doc("a", <<Doc("$elemMatch", Leaf)>>),
      I32("$or", 1), I32("$and", 1), I32("$nor", 1), Arr("$or", <<>>),
      Bool("$atomic", TRUE), Bool("$atomic", FALSE), I32("$isolated", 1),
      Str("$where", "f"), Doc("$text", Leaf), I32("$text", 1), Str("$comment", "c"),
      Str("$ref", "c"), I32("$id", 1), Str("$db", "d"), I32("$bogus", 1), Str("$options", "i") }
        \cup {Arr(op, <<i>>) : op \in {"$or", "$and", "$nor"}, i \in TreeItems}
        \cup {Arr("$or", <<Doc("0", Leaf), i>>) : i \in TreeItems}

TopQueries == {<<>>} \cup Seq1(TopElems) \cup Seq2(TopElems, TopElems)

\* Items of a $all array, and the $all arrays of up to MaxAllLen of them.
AllItems ==
    { I32("n", 1), Rx("n", "x", "m"), Doc("n", Leaf), Doc("n", <<>>),
      Doc("n", <<I32("$gt", 1)>>), Doc("n", <<Str("$eq", "s")>>),
      Doc("n", <<Doc("$elemMatch", Leaf)>>), Doc("n", <<Doc("$elemMatch", <<I32("$gt", 1)>>)>>),
      Doc("n", <<Doc("$elemMatch", Leaf), I32("c", 1)>>),
      Doc("n", <<Doc("$elemMatch", <<I32("$gt", 1)>>), I32("$bogus", 1)>>),
      Doc("n", <<I32("$elemMatch", 1)>>), Doc("n", <<I32("b", 1), Doc("$elemMatch", Leaf)>>),
      Arr("n", <<Doc("0", <<Doc("$elemMatch", Leaf)>>)>>) }

AllQueries ==
    UNION {{<<Doc("a", <<Arr("$all", items)>>)>> : items \in [1..n -> AllItems]}
           : n \in 0..MaxAllLen}

Queries == Scenarios \cup FieldQueries \cup TopQueries \cup AllQueries

\* Arguments of the leaf operators.
Numbers ==
    {I32("n", v) : v \in {IntMin, -2, -1, 0, 1, 2, IntMax}}
        \cup {I64("n", h, l) : h \in {IntMin, -1, 0, 1, IntMax}, l \in {IntMin, -1, 0, 1, IntMax}}
        \cup {Dbl("n", h) : h \in (-MaxHalves)..MaxHalves}
        \cup {BigDbl("n"), NanDbl("n")}

NonNumbers == {Str("n", "x"), Bool("n", TRUE), Null("n"), Doc("n", <<>>), Arr("n", <<>>)}

\* The divisors are not zero: what the MOD node's init makes of a zero
\* divisor lies outside the parser.
ModItems == {I32("n", 1), I32("n", 2), I64("n", 1, 3), Dbl("n", 5), BigDbl("n"),
             Str("n", "x"), Null("n")}

ModArgs ==
    UNION {{Arr("$mod", items) : items \in [1..n -> ModItems]} : n \in 0..MaxModLen}
        \cup {Rename(x, "$mod") : x \in Numbers \cup NonNumbers}

PatternArgs == {Str("$regex", "x"), Rx("$regex", "x", ""), Rx("$regex", "x", "m"),
                I32("$regex", 1)}

OptionsArgs == {Str("$options", "i"), Str("$options", ""), I32("$options", 1)}

LeafQueries ==
    {<<Doc("a", <<Rename(x, "$size")>>)>> : x \in Numbers \cup NonNumbers}
        \cup {<<Doc("a", <<x>>)>> : x \in ModArgs}
        \cup {<<Doc("a", d)>> : d \in Seq2(PatternArgs, OptionsArgs)
                                        \cup Seq2(OptionsArgs, PatternArgs)
                                        \cup Seq1(PatternArgs) \cup Seq1(OptionsArgs)}

\* Nested predicates. A predicate is wrapped into a predicate one document
\* deeper, a field sub-document into a field sub-document.
Wrap(kind, X) ==
    CASE kind = "or" -> <<Arr("$or", <<Doc("0", X)>>)>>
      [] kind = "and" -> <<Arr("$and", <<Doc("0", X)>>)>>
      [] kind = "nor" -> <<Arr("$nor", <<Doc("0", Leaf), Doc("1", X)>>)>>
      [] kind = "orAnd" -> <<I32("b", 1), Arr("$or", <<Doc("0", X)>>)>>
      [] kind = "elemMatch" -> <<Doc("a", <<Doc("$elemMatch", X)>>)>>
      [] OTHER -> <<Doc("a", <<Arr("$all", <<Doc("0", <<Doc("$elemMatch", X)>>)>>)>>)>>

WrapKinds == {"or", "and", "nor", "orAnd", "elemMatch", "allElemMatch"}

SubWrap(kind, S) ==
    CASE kind = "not" -> <<Doc("$not", S)>>
      [] kind = "elemMatch" -> <<Doc("$elemMatch", S)>>
      [] OTHER -> <<Arr("$all", <<Doc("0", <<Doc("$elemMatch", S)>>)>>)>>

SubWrapKinds == {"not", "elemMatch", "allElemMatch"}

\* n wrappings, of kinds k1 and k2 in turn, around innermost.
RECURSIVE Chain(_, _, _, _)
Chain(k1, k2, n, innermost) ==
    IF n = 0 THEN innermost ELSE Wrap(k1, Chain(k2, k1, n - 1, innermost))

RECURSIVE SubChain(_, _, _, _)
SubChain(k1, k2, n, innermost) ==
    IF n = 0 THEN innermost ELSE SubWrap(k1, SubChain(k2, k1, n - 1, innermost))

\* A literal document nested n documents deep.
RECURSIVE PlainChain(_)
PlainChain(n) == IF n = 0 THEN Leaf ELSE <<Doc("b", PlainChain(n - 1))>>

Nestings == 0..(kMaximumTreeDepth + MaxOverDepth)

NestedQueries ==
    {Chain(k1, k2, n, x) : k1 \in WrapKinds, k2 \in WrapKinds, n \in Nestings,
                           x \in {Leaf, <<I32("b", 1), I32("c", 2)>>,
                                  <<Doc("b", <<I32("$gt", 1), I32("$lt", 5)>>)>>}}
        \cup {<<Doc("a", SubChain(k1, k2, n, x))>>
                 : k1 \in SubWrapKinds, k2 \in SubWrapKinds, n \in Nestings,
                   x \in {<<I32("$gt", 1)>>, <<I32("$gt", 1), I32("$lt", 5)>>}}
        \cup {<<Doc("a", PlainChain(n))>> : n \in Nestings}
        \cup {<<Doc("a", <<Doc("$eq", PlainChain(n))>>)>> : n \in Nestings}
        \cup {<<Doc("a", <<Arr("$in", <<Doc("0", PlainChain(n))>>)>>)>> : n \in Nestings}
        \cup {<<Doc("a", <<Arr("$all", <<Doc("0", PlainChain(n))>>)>>)>> : n \in Nestings}
        \cup {<<Doc("a", <<Doc("$elemMatch", PlainChain(n))>>)>> : n \in Nestings}
        \cup {<<first>> \o Chain(k, k, n, Leaf)
                 : first \in {Str("$where", "f"), Doc("z", <<Bool("$type", TRUE)>>)},
                   k \in {"or", "elemMatch"}, n \in Nestings}


(***************************************************************************)
(* The state machine: the callbacks are installed, then the predicate is   *)
(* parsed.                                                                 *)
(***************************************************************************)
NoResult == Status("none", <<>>, <<>>)

\* What (int) of an out-of-range double can give.
CastOutcomes == {IntMin, 0, IntMax}

InitWith(queries, whereCallbacks, castOutcomes) ==
    /\ query \in queries
    /\ whereCallback \in whereCallbacks
    /\ geoCallback = "default"
    /\ textCallback = "default"
    /\ castOutcome \in castOutcomes
    /\ pc = "idle"
    /\ result = NoResult

Init == InitWith(Queries, {"default", "installed"}, {IntMin})

\* expressionParserGeoCallback = <the geo parser>
SetGeoCallback ==
    /\ pc = "idle"
    /\ geoCallback = "default"
    /\ geoCallback' = "installed"
    /\ UNCHANGED <<query, whereCallback, textCallback, castOutcome, pc, result>>

\* expressionParserTextCallback = <the text parser>
SetTextCallback ==
    /\ pc = "idle"
    /\ textCallback = "default"
    /\ textCallback' = "installed"
    /\ UNCHANGED <<query, whereCallback, geoCallback, castOutcome, pc, result>>

\* MatchExpressionParser::parse(obj): _parse(obj, 0)
Parse ==
    /\ pc = "idle"
    /\ result' = _parse(query, 0)
    /\ pc' = "done"
    /\ UNCHANGED <<query, whereCallback, geoCallback, textCallback, castOutcome>>

Next == SetGeoCallback \/ SetTextCallback \/ Parse

Spec == Init /\ [][Next]_vars

\* The parser on the arguments of $size, $mod and $regex/$options.
InitLeaf == InitWith(LeafQueries, {"default"}, CastOutcomes)

SpecLeaf == InitLeaf /\ [][Next]_vars

\* The parser on nested predicates.
InitDepth == InitWith(NestedQueries, {"default", "installed"}, {IntMin})

SpecDepth == InitDepth /\ [][Next]_vars

(***************************************************************************)
(* Vocabulary of the properties.                                           *)
(***************************************************************************)
Done == pc = "done"

Log == result.log

Events(fn) == {i \in 1..Len(Log) : Log[i].fn = fn}

HasKey(obj, k) == \E i \in 1..Len(obj) : obj[i].name = k

\* A DBRef as the specification defines it.
IsDBRef(obj, loose) ==
    IF loose THEN HasKey(obj, "$ref") \/ HasKey(obj, "$id") \/ HasKey(obj, "$db")
    ELSE HasKey(obj, "$ref") /\ HasKey(obj, "$id")

\* An expression document as the specification defines it.
ExpressionDocument(e, loose) ==
    /\ e.type = "Object"
    /\ Len(e.val) > 0
    /\ startsWithDollar(e.val[1].name)
    /\ ~IsDBRef(e.val, loose)

SameNode(a, b) == a.type = b.type /\ a.path = b.path /\ a.arg = b.arg /\ a.kids = b.kids

\* The argument of a $elemMatch that is parsed in the value form.
ValueFormArg(e) ==
    /\ ExpressionDocument(e, TRUE)
    /\ e.val[1].name \notin {"$and", "$nor", "$or", "$where"}

GeoKeys == {"$near", "$nearSphere", "$geoNear", "$maxDistance", "$minDistance"}

\* Every element of a document, at any nesting.
RECURSIVE AllElems(_)
AllElems(obj) ==
    UNION {{obj[i]} \cup (IF obj[i].type \in {"Object", "Array"} THEN AllElems(obj[i].val) ELSE {})
           : i \in 1..Len(obj)}

KeysAnywhere(obj) == {e.name : e \in AllElems(obj)}

(***************************************************************************)
(* The positions of a predicate the parser reads as predicate: the         *)
(* documents it descends into and their keys. A read is                    *)
(* [kind, key, depth, em]: kind is "doc" for a document parsed as a        *)
(* predicate or as a field sub-document, "pred" for a key of a predicate   *)
(* document and "op" for a key of a field sub-document; depth counts the   *)
(* documents descended through (the top-level document is at 0); em says   *)
(* that the position lies inside the argument of a $elemMatch. Items of    *)
(* $and/$or/$nor, field sub-documents that are expression documents, $not  *)
(* and $elemMatch arguments are descended into; literal values, the extra  *)
(* keys of a $all item and a sub-document that goes to the geo callback    *)
(* are not.                                                                *)
(***************************************************************************)
Read(kind, key, depth, em) == [kind |-> kind, key |-> key, depth |-> depth, em |-> em]

RECURSIVE PredReads(_, _, _)
RECURSIVE SubReads(_, _, _)

ArgReads(e, depth) ==
    IF ValueFormArg(e) THEN SubReads(e.val, depth, TRUE) ELSE PredReads(e.val, depth, TRUE)

PredElemReads(e, depth, em) ==
    {Read("pred", e.name, depth, em)}
        \cup IF e.name \in {"$or", "$and", "$nor"}
             THEN IF e.type = "Array"
                  THEN UNION {PredReads(e.val[i].val, depth + 1, em)
                              : i \in {k \in 1..Len(e.val) : e.val[k].type = "Object"}}
                  ELSE {}
             ELSE IF ~startsWithDollar(e.name) /\ ExpressionDocument(e, FALSE)
             THEN SubReads(e.val, depth + 1, em)
             ELSE {}

OpReads(e, depth, em) ==
    {Read("op", e.name, depth, em)}
        \cup CASE e.name = "$not" /\ e.type = "Object" /\ Len(e.val) > 0 ->
                    SubReads(e.val, depth + 1, em)
               [] e.name = "$elemMatch" /\ e.type = "Object" -> ArgReads(e, depth + 1)
               [] e.name = "$all" /\ e.type = "Array" ->
                    UNION {ArgReads(e.val[i].val[1], depth + 1)
                           : i \in {k \in 1..Len(e.val) :
                                       /\ e.val[1].type = "Object"
                                       /\ Len(e.val[1].val) > 0
                                       /\ e.val[1].val[1].name = "$elemMatch"
                                       /\ e.val[k].type = "Object"
                                       /\ Len(e.val[k].val) > 0
                                       /\ e.val[k].val[1].name = "$elemMatch"
                                       /\ e.val[k].val[1].type = "Object"}}
               [] OTHER -> {}

PredReads(obj, depth, em) ==
    {Read("doc", "", depth, em)} \cup UNION {PredElemReads(obj[i], depth, em) : i \in 1..Len(obj)}

SubReads(sub, depth, em) ==
    {Read("doc", "", depth, em)}
        \cup IF Len(sub) > 0 /\ sub[1].type \in {"Object", "Array"} /\ sub[1].name \in GeoKeys
             THEN {}
             ELSE UNION {OpReads(sub[j], depth, em) : j \in 1..Len(sub)}

Reads(obj) == PredReads(obj, 0, FALSE)

(***************************************************************************)
(* C9: _isExpressionDocument(e, mode) is true exactly when e is a          *)
(* non-empty document whose first field name begins with '$' and that is   *)
(* not a DBRef (both $ref and $id in strict mode, any of $ref, $id, $db in *)
(* loose mode, at any position); a field of a predicate document whose     *)
(* document value holds both $ref and $id gives EQ(field, doc) and no      *)
(* _parseSub call.                                                         *)
(***************************************************************************)
C9_ExpressionDocument ==
    Done =>
        /\ \A i \in Events("_isExpressionDocument") :
              (Log[i].ret.type = "true") <=> ExpressionDocument(Log[i].obj[1], Log[i].level = 1)
        /\ \A i \in Events("_parse.return") : \A k \in 1..Len(Log[i].obj) :
              LET e == Log[i].obj[k]
              IN (~startsWithDollar(e.name) /\ e.type = "Object"
                    /\ HasKey(e.val, "$ref") /\ HasKey(e.val, "$id"))
                 => /\ \E c \in 1..Len(Log[i].root) :
                          SameNode(Log[i].root[c], Node("EQ", e.name, <<e>>, <<>>))
                    /\ ~\E j \in Events("_parseSub") :
                          /\ Log[j].level = Log[i].level + 1
                          /\ Log[j].name = e.name
                          /\ Log[j].obj = e.val

\* A parsed field whose document value starts with an operator key and holds
\* $ref and $id behind it.
C9_Witness ==
    /\ Done
    /\ result.ok
    /\ \E i \in Events("_isExpressionDocument") :
          /\ Log[i].obj[1].type = "Object"
          /\ Len(Log[i].obj[1].val) > 2
          /\ Log[i].obj[1].val[1].name = "$gt"
          /\ HasKey(Log[i].obj[1].val, "$ref")
          /\ HasKey(Log[i].obj[1].val, "$id")
          /\ Log[i].ret.type = "false"

(***************************************************************************)
(* C10: $elemMatch takes the value form exactly when its argument is an    *)
(* expression document in loose DBRef mode whose first key is none of      *)
(* $and, $nor, $or, $where, and then returns ELEM_MATCH_VALUE(name) with   *)
(* the children of _parseSub on the empty name; otherwise it parses the    *)
(* argument as a nested predicate and returns ELEM_MATCH_OBJECT(name,      *)
(* child); a non-document argument is an error.                            *)
(***************************************************************************)
C10_ElemMatchForm ==
    Done =>
        /\ \A i \in Events("_isExpressionDocument") :
              Log[i].level = 1 =>
                 /\ i < Len(Log)
                 /\ Log[i].obj[1].type = "Object"
                 /\ IF ValueFormArg(Log[i].obj[1])
                    THEN /\ Log[i + 1].fn = "_parseSub"
                         /\ Log[i + 1].name = ""
                         /\ Log[i + 1].obj = Log[i].obj[1].val
                    ELSE /\ Log[i + 1].fn = "_parse"
                         /\ Log[i + 1].obj = Log[i].obj[1].val
        /\ \A i \in Events("_parseElemMatch.return") :
              LET e == Log[i].obj[1]
                  ret == Log[i].ret
              IN /\ ret.path = Log[i].name
                 /\ IF ValueFormArg(e)
                    THEN /\ ret.type = "ELEM_MATCH_VALUE"
                         /\ ret.kids = _parseSub("", e.val, Log[i].level).root
                    ELSE /\ ret.type = "ELEM_MATCH_OBJECT"
                         /\ ret.kids = <<_parse(e.val, Log[i].level).expr>>
        /\ \A i \in Events("_parseSubField") :
              (Log[i].obj[1].name = "$elemMatch" /\ Log[i].obj[1].type # "Object")
                 => ~result.ok

\* A DBRef-shaped argument parsed in the object form.
C10_Witness ==
    /\ Done
    /\ result.ok
    /\ \E i \in Events("_parseElemMatch.return") :
          /\ Len(Log[i].obj[1].val) > 0
          /\ Log[i].obj[1].val[1].name = "$ref"
          /\ ~HasKey(Log[i].obj[1].val, "$id")
          /\ Log[i].ret.type = "ELEM_MATCH_OBJECT"

(***************************************************************************)
(* C4: every successful _parse call, top-level or nested, collapses its    *)
(* implicit AND: with exactly one accumulated child it returns that child, *)
(* otherwise the AND of the accumulated children, which are what the       *)
(* elements of the document add, in document order.                        *)
(***************************************************************************)
RECURSIVE Contributions(_, _, _)
Contributions(obj, i, level) ==
    IF i > Len(obj) THEN <<>>
    ELSE _parseElement(obj[i], level = 0, level + 1).root \o Contributions(obj, i + 1, level)

C4_Collapse ==
    Done =>
        /\ \A i \in Events("_parse.return") :
              /\ Log[i].root = Contributions(Log[i].obj, 1, Log[i].level)
              /\ Len(Log[i].root) = 1 => SameNode(Log[i].ret, Log[i].root[1])
              /\ Len(Log[i].root) # 1 =>
                    SameNode(Log[i].ret, Node("AND", "", <<>>, Log[i].root))
        /\ result.ok =>
              /\ Len(Log) > 0
              /\ Log[Len(Log)].fn = "_parse.return"
              /\ Log[Len(Log)].level = 0
              /\ SameNode(result.expr, Log[Len(Log)].ret)

\* A nested call that returned its only child unwrapped and a call that
\* returned an AND of two children.
C4_Witness ==
    /\ Done
    /\ result.ok
    /\ \E i \in Events("_parse.return") :
          Log[i].level > 0 /\ Len(Log[i].root) = 1 /\ Log[i].ret.type = "EQ"
    /\ \E i \in Events("_parse.return") :
          Len(Log[i].root) = 2 /\ Log[i].ret.type = "AND"

(***************************************************************************)
(* C5 as claimed: _parseSub hands the whole sub-document to the geo        *)
(* callback exactly when its first element is an embedded document or has  *)
(* a key among $near, $nearSphere, $geoNear, $maxDistance, $minDistance.   *)
(***************************************************************************)
\* The _parseSub call logged at i passed its depth check on a non-empty
\* sub-document.
SubCall(i) ==
    /\ Log[i].fn = "_parseSub"
    /\ Log[i].level <= kMaximumTreeDepth
    /\ Len(Log[i].obj) > 0

\* The call logged at i handed its sub-document to the geo callback.
HandedToGeo(i) ==
    /\ i < Len(Log)
    /\ Log[i + 1].fn = "expressionParserGeoCallback"
    /\ Log[i + 1].name = Log[i].name
    /\ Log[i + 1].obj = Log[i].obj

C5_GeoPeekAsClaimed ==
    Done =>
        \A i \in 1..Len(Log) :
            SubCall(i) =>
                (HandedToGeo(i) <=>
                    (Log[i].obj[1].type = "Object" \/ Log[i].obj[1].name \in GeoKeys))

(***************************************************************************)
(* C5 amended: _parseSub hands the whole sub-document to the geo callback  *)
(* (one child appended on success, the callback's status returned, no key  *)
(* dispatched) exactly when its first element is an embedded document or   *)
(* array AND has a key among $near, $nearSphere, $geoNear, $maxDistance,   *)
(* $minDistance; in every other case the keys are dispatched one by one    *)
(* through _parseSubField.                                                 *)
(***************************************************************************)
C5_GeoPeek ==
    Done =>
        \A i \in 1..Len(Log) :
            SubCall(i) =>
                LET sub == Log[i].obj
                    geo == sub[1].type \in {"Object", "Array"} /\ sub[1].name \in GeoKeys
                IN /\ HandedToGeo(i) <=> geo
                   /\ (geo /\ geoCallback = "installed") =>
                         /\ i + 2 <= Len(Log)
                         /\ Log[i + 2].fn = "_parseSub.return"
                         /\ Log[i + 2].obj = sub
                         /\ Len(Log[i + 2].root) = 1
                         /\ Log[i + 2].root[1].type = "GEO"
                         /\ Log[i + 2].root[1].path = Log[i].name
                   /\ (geo /\ geoCallback = "default") =>
                         /\ i + 1 = Len(Log)
                         /\ ~result.ok
                         /\ result.code = "BadValue"
                         /\ result.msg = <<"geo not linked in">>
                   /\ ~geo =>
                         /\ i < Len(Log)
                         /\ Log[i + 1] = Event("_parseSubField", Log[i].level + 1, Log[i].name,
                                               <<sub[1]>>, <<>>, NullExpr)
                         /\ result.ok =>
                               \A j \in 1..Len(sub) : \E k \in Events("_parseSubField") :
                                   /\ k > i
                                   /\ Log[k] = Event("_parseSubField", Log[i].level + 1,
                                                     Log[i].name, <<sub[j]>>, <<>>, NullExpr)

\* A sub-document whose first element is an embedded document under $gt is
\* dispatched key by key.
C5_Witness ==
    /\ Done
    /\ result.ok
    /\ \E i \in 1..Len(Log) :
          /\ SubCall(i)
          /\ Log[i].obj[1].type = "Object"
          /\ Log[i].obj[1].name = "$gt"
          /\ Log[i + 1].fn = "_parseSubField"

(***************************************************************************)
(* C3 as claimed: a predicate with a $where key anywhere inside the        *)
(* argument of a $elemMatch is refused with BadValue, whichever $where     *)
(* callback is installed.                                                  *)
(***************************************************************************)
WhereUnderElemMatch(obj) ==
    \E e \in AllElems(obj) :
        /\ e.name = "$elemMatch"
        /\ e.type \in {"Object", "Array"}
        /\ "$where" \in KeysAnywhere(e.val)

C3_WhereAsClaimed ==
    (Done /\ WhereUnderElemMatch(query)) => (~result.ok /\ result.code = "BadValue")

(***************************************************************************)
(* C3 amended: a predicate with a $where key that the parser reads inside  *)
(* the argument of a $elemMatch (a key of the argument or of a document    *)
(* parsed inside it, not a key of a literal value) is refused, never       *)
(* parsed to a tree; the error is BadValue when the installed callback     *)
(* accepts $where, BadValue or the callback's own NoWhereParseContext with *)
(* the default callback (a $type argument of a wrong type that fails       *)
(* first keeps its TypeMismatch).                                          *)
(***************************************************************************)
WhereReadInElemMatch(obj) ==
    \E r \in Reads(obj) : r.kind \in {"pred", "op"} /\ r.key = "$where" /\ r.em

C3_WhereInElemMatch ==
    (Done /\ WhereReadInElemMatch(query)) =>
        /\ ~result.ok
        /\ "$type" \notin KeysAnywhere(query) =>
              IF whereCallback = "installed"
              THEN result.code = "BadValue"
              ELSE result.code \in {"BadValue", "NoWhereParseContext"}

\* An accepted $where behind another key of an object-form argument, found
\* by the scan of the subtree.
C3_Witness ==
    /\ Done
    /\ whereCallback = "installed"
    /\ \E r \in Reads(query) : r.kind = "pred" /\ r.key = "$where" /\ r.em
    /\ Len(query) = 1
    /\ query[1].type = "Object"
    /\ Len(query[1].val) = 1
    /\ query[1].val[1].name = "$elemMatch"
    /\ Len(query[1].val[1].val) = 2
    /\ query[1].val[1].val[2].name = "$where"
    /\ result.msg = <<"$elemMatch", " cannot contain ", "$where", " expression">>

(***************************************************************************)
(* C1: after a successful parse the height of the returned tree, the       *)
(* number of nodes on its longest path from the root to a leaf, is at most *)
(* kMaximumTreeDepth.                                                      *)
(***************************************************************************)
Max(S) == CHOOSE x \in S : \A y \in S : y <= x

RECURSIVE Height(_)
Height(node) == 1 + Max({0} \cup {Height(node.kids[i]) : i \in 1..Len(node.kids)})

C1_TreeDepth == (Done /\ result.ok) => Height(result.expr) <= kMaximumTreeDepth

(***************************************************************************)
(* C2 as claimed: a predicate whose embedded documents, directly or as     *)
(* items of arrays, nest deeper than kMaximumTreeDepth is refused with     *)
(* BadValue, however the nesting is built, plain values included.          *)
(***************************************************************************)
\* The number of documents around the innermost embedded document; arrays
\* do not count, the top-level document is at 0.
RECURSIVE DocNesting(_)
DocNesting(obj) ==
    Max({0} \cup {(IF obj[i].type = "Object" THEN 1 ELSE 0) + DocNesting(obj[i].val)
                  : i \in {k \in 1..Len(obj) : obj[k].type \in {"Object", "Array"}}})

C2_DepthAsClaimed ==
    (Done /\ DocNesting(query) > kMaximumTreeDepth) =>
        (~result.ok /\ result.code = "BadValue")

(***************************************************************************)
(* C2 amended: a predicate in which a document the parser descends into    *)
(* (an item of $and/$or/$nor, a $elemMatch or $not argument, the operator  *)
(* sub-document of a field) lies more than kMaximumTreeDepth documents     *)
(* below the top-level document is refused, never parsed to a tree, with   *)
(* BadValue unless a $where or a $type read before fails with its own      *)
(* kind; literal values are not descended into and nest without limit.     *)
(***************************************************************************)
ReadDepth(obj) == Max({r.depth : r \in {x \in Reads(obj) : x.kind = "doc"}})

C2_DepthLimit ==
    (Done /\ ReadDepth(query) > kMaximumTreeDepth) =>
        /\ ~result.ok
        /\ ("$type" \notin KeysAnywhere(query) /\ "$where" \notin KeysAnywhere(query)) =>
              result.code = "BadValue"

\* Nested $elemMatch arguments one document too deep, refused by the depth
\* check.
C2_Witness ==
    /\ Done
    /\ ReadDepth(query) = kMaximumTreeDepth + 1
    /\ query[1].name = "a"
    /\ query[1].val[1].name = "$elemMatch"
    /\ ~result.ok
    /\ result.msg[1] = "exceeded maximum query tree depth of "

\* The nodes of a tree.
RECURSIVE Subtrees(_)
Subtrees(node) ==
    {node} \cup UNION {Subtrees(node.kids[i]) : i \in 1..Len(node.kids)}

\* {a: {<key>: ...}}, one field with a sub-document of one operator.
OneOperator(obj, key) ==
    /\ Len(obj) = 1
    /\ obj[1].type = "Object"
    /\ Len(obj[1].val) = 1
    /\ obj[1].val[1].name = key

(***************************************************************************)
(* C6: {a: {$mod: arg}} parses successfully exactly when arg is an array   *)
(* of exactly two numbers, and then to MOD(a, int of the first, int of the *)
(* second); every other argument is an error.                              *)
(***************************************************************************)
C6_ModValidation ==
    (Done /\ OneOperator(query, "$mod")) =>
        LET e == query[1].val[1]
            wellFormed == /\ e.type = "Array"
                          /\ Len(e.val) = 2
                          /\ isNumber(e.val[1])
                          /\ isNumber(e.val[2])
        IN /\ result.ok <=> wellFormed
           /\ result.ok =>
                 result.expr = Node("MOD", query[1].name,
                                    <<numberInt(e.val[1]), numberInt(e.val[2])>>, <<>>)

(***************************************************************************)
(* C7: a field sub-document of a $regex key and a String $options key, in  *)
(* either order, $regex a String or a RegEx, parses to the one node        *)
(* REGEX(field, pattern of $regex, the $options string).                   *)
(***************************************************************************)
RegexWithOptions(obj) ==
    /\ Len(obj) = 1
    /\ obj[1].type = "Object"
    /\ Len(obj[1].val) = 2
    /\ {obj[1].val[1].name, obj[1].val[2].name} = {"$regex", "$options"}
    /\ \A i \in 1..2 : obj[1].val[i].name = "$options" => obj[1].val[i].type = "String"

C7_RegexOptions ==
    (Done /\ RegexWithOptions(query) /\ result.ok) =>
        LET sub == query[1].val
            rx == IF sub[1].name = "$regex" THEN sub[1] ELSE sub[2]
            opts == IF sub[1].name = "$options" THEN sub[1] ELSE sub[2]
            pattern == IF rx.type = "String" THEN rx.val ELSE rx.val[1]
        IN result.expr = Node("REGEX", query[1].name, <<pattern, opts.val>>, <<>>)

(***************************************************************************)
(* C8: every SIZE node of a successfully parsed tree holds n >= 0 or       *)
(* n = -1, whatever the Int32, Int64, Double or String argument of $size.  *)
(***************************************************************************)
C8_SizeRange ==
    (Done /\ result.ok) =>
        \A node \in Subtrees(result.expr) :
            node.type = "SIZE" => (node.arg[1] >= 0 \/ node.arg[1] = -1)

(***************************************************************************)
(* C11: {a: {$all: A}} gives FALSE exactly when A is empty; for a          *)
(* non-empty A a successful parse gives an AND of one child per item of A, *)
(* in order and never unwrapped; when the first item is a document led by  *)
(* $elemMatch every item must be one, otherwise every item must be a regex *)
(* or a value that is no document led by a recognised operator, and the    *)
(* parse of any other array is an error.                                   *)
(***************************************************************************)
LedByElemMatch(x) == x.type = "Object" /\ firstElement(x.val).name = "$elemMatch"

LedByOperator(x) == x.type = "Object" /\ getGtLtOp(firstElement(x.val), "-1") # "-1"

\* The child a scalar-form item gives.
ScalarChild(name, x) ==
    IF x.type = "RegEx" THEN Node("REGEX", name, <<x.val[1], x.val[2]>>, <<>>)
    ELSE Node("EQ", name, <<x>>, <<>>)

C11_All ==
    (Done /\ OneOperator(query, "$all") /\ query[1].val[1].type = "Array") =>
        LET A == query[1].val[1].val
            name == query[1].name
            elemMatchForm == Len(A) > 0 /\ LedByElemMatch(A[1])
        IN /\ (result.ok /\ result.expr.type = "FALSE") <=> Len(A) = 0
           /\ (elemMatchForm /\ \E i \in 1..Len(A) : ~LedByElemMatch(A[i])) => ~result.ok
           /\ (~elemMatchForm /\ \E i \in 1..Len(A) : LedByOperator(A[i])) => ~result.ok
           /\ (~elemMatchForm /\ \A i \in 1..Len(A) : ~LedByOperator(A[i])) => result.ok
           /\ (result.ok /\ Len(A) > 0) =>
                 /\ result.expr.type = "AND"
                 /\ Len(result.expr.kids) = Len(A)
                 /\ \A i \in 1..Len(A) :
                       IF elemMatchForm
                       THEN /\ result.expr.kids[i].type
                                  \in {"ELEM_MATCH_VALUE", "ELEM_MATCH_OBJECT"}
                            /\ result.expr.kids[i].path = name
                       ELSE result.expr.kids[i] = ScalarChild(name, A[i])

\* A single {$elemMatch: ...} item gives an AND of one child.
C11_Witness ==
    /\ Done
    /\ OneOperator(query, "$all")
    /\ query[1].val[1].type = "Array"
    /\ Len(query[1].val[1].val) = 1
    /\ LedByElemMatch(query[1].val[1].val[1])
    /\ result.ok
    /\ result.expr.type = "AND"
    /\ Len(result.expr.kids) = 1

(***************************************************************************)
(* C12 as claimed: a $atomic or $isolated key that the parser reads below  *)
(* the top-level document, in a nested predicate or in a field             *)
(* sub-document, makes the parse a BadValue error.                         *)
(***************************************************************************)
AtomicKeys == {"$atomic", "$isolated"}

\* A $atomic/$isolated key among the keys the parser reads, elsewhere than
\* in the top-level document.
AtomicBelowTop(obj) ==
    \E r \in Reads(obj) :
        r.key \in AtomicKeys /\ (r.kind = "op" \/ (r.kind = "pred" /\ r.depth > 0))

C12_AtomicAsClaimed ==
    (Done /\ AtomicBelowTop(query)) => (~result.ok /\ result.code = "BadValue")

(***************************************************************************)
(* C12 amended: a $atomic or $isolated key read below the top-level        *)
(* document makes the parse an error, BadValue unless a $where or a $type  *)
(* read before it fails with its own kind; in the top-level document every *)
(* truthy one adds exactly one ATOMIC leaf to the root AND and a falsy one *)
(* nothing; in a successfully parsed tree an ATOMIC node is the root or a  *)
(* child of the root AND and nowhere else.                                 *)
(***************************************************************************)
\* The depths, from node at depth d, at which ATOMIC nodes lie.
RECURSIVE AtomicDepths(_, _)
AtomicDepths(node, d) ==
    (IF node.type = "ATOMIC" THEN {d} ELSE {})
        \cup UNION {AtomicDepths(node.kids[i], d + 1) : i \in 1..Len(node.kids)}

\* The children the top-level _parse collected.
TopRoot == Log[CHOOSE i \in Events("_parse.return") : Log[i].level = 0].root

C12_Atomic ==
    /\ (Done /\ AtomicBelowTop(query)) =>
          /\ ~result.ok
          /\ ("$type" \notin KeysAnywhere(query) /\ "$where" \notin KeysAnywhere(query)) =>
                result.code = "BadValue"
    /\ (Done /\ result.ok) =>
          /\ Cardinality({i \in 1..Len(TopRoot) : TopRoot[i].type = "ATOMIC"})
                = Cardinality({i \in 1..Len(query) :
                                  query[i].name \in AtomicKeys /\ trueValue(query[i])})
          /\ AtomicDepths(result.expr, 0) \subseteq {0, 1}
          /\ 1 \in AtomicDepths(result.expr, 0) => result.expr.type = "AND"

\* A truthy $atomic next to a field predicate: an ATOMIC child of the root
\* AND.
C12_Witness ==
    /\ Done
    /\ Len(query) = 2
    /\ query[1].name = "a"
    /\ query[2].name = "$atomic"
    /\ trueValue(query[2])
    /\ result.ok
    /\ result.expr.type = "AND"
    /\ result.expr.kids[2].type = "ATOMIC"

(***************************************************************************)
(* C13 as claimed: in a successfully parsed tree a path-carrying child of  *)
(* an ELEM_MATCH_VALUE node has the empty path, and every other            *)
(* path-carrying node carries the field name its predicate appeared under. *)
(***************************************************************************)
PathTypes == {"EQ", "LT", "LTE", "GT", "GTE", "REGEX", "MOD", "EXISTS", "TYPE", "SIZE", "IN",
              "ELEM_MATCH_VALUE", "ELEM_MATCH_OBJECT", "GEO"}

\* The keys of the input that name a field.
FieldNames(obj) ==
    {k \in KeysAnywhere(obj) : ~startsWithDollar(k) \/ k \in {"$ref", "$id", "$db"}}

C13_PathsAsClaimed ==
    (Done /\ result.ok) =>
        /\ result.expr.type \in PathTypes => result.expr.path \in FieldNames(query)
        /\ \A n \in Subtrees(result.expr) : \A i \in 1..Len(n.kids) :
              n.kids[i].type \in PathTypes =>
                  IF n.type = "ELEM_MATCH_VALUE" THEN n.kids[i].path = ""
                  ELSE n.kids[i].path \in FieldNames(query)

(***************************************************************************)
(* C13 amended: the path-carrying nodes of a successfully parsed tree      *)
(* carry, read in pre-order, the field names of the predicates of the      *)
(* input read in order, where every predicate of the value form of a       *)
(* $elemMatch, at any depth below the ELEM_MATCH_VALUE node down to the    *)
(* next object-form argument (so also under the NOT of $ne, $nin, $not and *)
(* the AND of $all), has the empty name; the regexes held in the entries   *)
(* of an IN node have the empty path.                                      *)
(***************************************************************************)
\* The concatenation of the sequences of ss.
RECURSIVE FlattenFrom(_, _)
FlattenFrom(ss, i) == IF i > Len(ss) THEN <<>> ELSE ss[i] \o FlattenFrom(ss, i + 1)

Flatten(ss) == FlattenFrom(ss, 1)

\* The paths of the path-carrying nodes of a tree, in pre-order.
RECURSIVE TreePaths(_)
TreePaths(node) ==
    (IF node.type \in PathTypes THEN <<node.path>> ELSE <<>>)
        \o Flatten([i \in 1..Len(node.kids) |-> TreePaths(node.kids[i])])

\* The names the predicates of the input are under, in the order of the
\* input.
RECURSIVE PredPaths(_)
RECURSIVE SubPaths(_, _)

ArgPaths(name, e) ==
    IF e.type # "Object" THEN <<>>
    ELSE <<name>> \o (IF ValueFormArg(e) THEN SubPaths("", e.val) ELSE PredPaths(e.val))

OpPaths(name, e) ==
    CASE e.name = "$options" -> <<>>
      [] e.name = "$not" /\ e.type = "Object" -> SubPaths(name, e.val)
      [] e.name = "$elemMatch" -> ArgPaths(name, e)
      [] e.name = "$all" /\ e.type = "Array" ->
            IF Len(e.val) > 0 /\ LedByElemMatch(e.val[1])
            THEN Flatten([i \in 1..Len(e.val) |->
                             IF LedByElemMatch(e.val[i])
                             THEN ArgPaths(name, e.val[i].val[1]) ELSE <<>>])
            ELSE [i \in 1..Len(e.val) |-> name]
      [] OTHER -> <<name>>

PredElemPaths(e) ==
    IF e.name \in {"$or", "$and", "$nor"}
    THEN IF e.type = "Array"
         THEN Flatten([i \in 1..Len(e.val) |->
                          IF e.val[i].type = "Object" THEN PredPaths(e.val[i].val) ELSE <<>>])
         ELSE <<>>
    ELSE IF e.name \in {"$ref", "$id", "$db"} THEN <<e.name>>
    ELSE IF startsWithDollar(e.name) THEN <<>>
    ELSE IF ExpressionDocument(e, FALSE) THEN SubPaths(e.name, e.val)
    ELSE <<e.name>>

PredPaths(obj) == Flatten([i \in 1..Len(obj) |-> PredElemPaths(obj[i])])

SubPaths(name, sub) ==
    IF Len(sub) > 0 /\ sub[1].type \in {"Object", "Array"} /\ sub[1].name \in GeoKeys
    THEN <<name>>
    ELSE Flatten([j \in 1..Len(sub) |-> OpPaths(name, sub[j])])

C13_Paths ==
    (Done /\ result.ok) =>
        /\ TreePaths(result.expr) = PredPaths(query)
        /\ \A n \in Subtrees(result.expr) :
              n.type = "IN" => \A i \in 1..Len(n.arg[2]) : n.arg[2][i].path = ""

\* {a: {$elemMatch: {$not: ...}}}: the predicate under the NOT of a value
\* form has the empty path.
C13_Witness ==
    /\ Done
    /\ result.ok
    /\ result.expr.type = "ELEM_MATCH_VALUE"
    /\ result.expr.path = "a"
    /\ Len(result.expr.kids) = 1
    /\ result.expr.kids[1].type = "NOT"
    /\ TreePaths(result.expr.kids[1]) = <<"">>

(***************************************************************************)
(* C14: the message of an error names the operator whose element caused    *)
(* it: a non-array argument of $or, $and, $nor, $in or $nin, and an        *)
(* expression document among the items of $in or $nin, give a message that *)
(* names that same operator, with or without its leading '$'.              *)
(***************************************************************************)
\* The name of an operator without its '$'.
Bare(op) ==
    CASE op = "$or" -> "or" [] op = "$and" -> "and" [] op = "$nor" -> "nor"
      [] op = "$in" -> "in" [] OTHER -> "nin"

Names(msg, op) == \E i \in 1..Len(msg) : msg[i] = op \/ msg[i] = Bare(op)

C14_MessageNamesOperator ==
    Done =>
        /\ \A op \in {"$or", "$and", "$nor"} :
              (Len(query) = 1 /\ query[1].name = op /\ query[1].type # "Array") =>
                  (~result.ok /\ Names(result.msg, op))
        /\ \A op \in {"$in", "$nin"} :
              (OneOperator(query, op) /\ query[1].name = "a") =>
                  LET e == query[1].val[1]
                  IN /\ e.type # "Array" => (~result.ok /\ Names(result.msg, op))
                     /\ (e.type = "Array"
                           /\ \E i \in 1..Len(e.val) : ExpressionDocument(e.val[i], FALSE)) =>
                             (~result.ok /\ Names(result.msg, op))

(***************************************************************************)
(* C15: every invocation of _parse and _parseSub is entered with a level   *)
(* equal to the number of invocations it is nested in, so the level grows  *)
(* by one from an invocation to the next one nested inside it, also        *)
(* through $all, $elemMatch, $not and the arrays of $or/$and/$nor; an      *)
(* invocation entered above kMaximumTreeDepth returns BadValue before it   *)
(* examines an element; no invocation is entered above                     *)
(* kMaximumTreeDepth + 1 and parse returns a status.                       *)
(***************************************************************************)
Call(fn, obj, depth) == [fn |-> fn, obj |-> obj, depth |-> depth]

\* The invocations the input asks for, in order, each with the number of
\* invocations around it.
RECURSIVE PredCalls(_, _)
RECURSIVE SubCalls(_, _)

ArgCalls(e, d) ==
    IF e.type # "Object" THEN <<>>
    ELSE IF ValueFormArg(e) THEN SubCalls(e.val, d) ELSE PredCalls(e.val, d)

OpCalls(e, d) ==
    CASE e.name = "$not" /\ e.type = "Object" /\ Len(e.val) > 0 -> SubCalls(e.val, d)
      [] e.name = "$elemMatch" -> ArgCalls(e, d)
      [] e.name = "$all" /\ e.type = "Array" /\ Len(e.val) > 0 /\ LedByElemMatch(e.val[1]) ->
            Flatten([i \in 1..Len(e.val) |->
                        IF LedByElemMatch(e.val[i]) THEN ArgCalls(e.val[i].val[1], d)
                        ELSE <<>>])
      [] OTHER -> <<>>

PredElemCalls(e, d) ==
    IF e.name \in {"$or", "$and", "$nor"}
    THEN IF e.type = "Array"
         THEN Flatten([i \in 1..Len(e.val) |->
                          IF e.val[i].type = "Object" THEN PredCalls(e.val[i].val, d)
                          ELSE <<>>])
         ELSE <<>>
    ELSE IF ~startsWithDollar(e.name) /\ ExpressionDocument(e, FALSE)
    THEN SubCalls(e.val, d)
    ELSE <<>>

PredCalls(obj, d) ==
    <<Call("_parse", obj, d)>>
        \o Flatten([i \in 1..Len(obj) |-> PredElemCalls(obj[i], d + 1)])

SubCalls(sub, d) ==
    <<Call("_parseSub", sub, d)>>
        \o IF Len(sub) > 0 /\ sub[1].type \in {"Object", "Array"} /\ sub[1].name \in GeoKeys
           THEN <<>>
           ELSE Flatten([j \in 1..Len(sub) |-> OpCalls(sub[j], d + 1)])

IsEntry(ev) == ev.fn \in {"_parse", "_parseSub"}

\* The invocations made, in order.
Entries == SelectSeq(Log, IsEntry)

\* The invocations made, each with the level it was entered with.
Made == [i \in 1..Len(Entries) |-> Call(Entries[i].fn, Entries[i].obj, Entries[i].level)]

C15_Depth ==
    Done =>
        /\ result # NoResult
        /\ Len(Made) <= Len(PredCalls(query, 0))
        /\ result.ok => Len(Made) = Len(PredCalls(query, 0))
        /\ Made = SubSeq(PredCalls(query, 0), 1, Len(Made))
        /\ \A i \in 1..Len(Made) : Made[i].depth <= kMaximumTreeDepth + 1
        /\ \A i \in 1..Len(Log) :
              (IsEntry(Log[i]) /\ Log[i].level > kMaximumTreeDepth) =>
                  (i = Len(Log) /\ ~result.ok /\ result.code = "BadValue")

\* A chain through $all and $elemMatch that reaches an invocation at
\* kMaximumTreeDepth + 1.
C15_Witness ==
    /\ Done
    /\ Len(query) = 1
    /\ query[1].type = "Object"
    /\ Len(query[1].val) = 1
    /\ query[1].val[1].name = "$all"
    /\ Len(Entries) > 0
    /\ Entries[Len(Entries)].level = kMaximumTreeDepth + 1
    /\ ~result.ok

(***************************************************************************)
(* C16: in the $elemMatch form of $all only the first key of an item       *)
(* counts: {a: {$all: A}} parses, to the same tree or to the same error,   *)
(* as the predicate in which every item of A led by $elemMatch is cut down *)
(* to that key.                                                            *)
(***************************************************************************)
\* The item without the keys after its leading $elemMatch.
FirstKeyOnly(x) == IF LedByElemMatch(x) THEN [x EXCEPT !.val = <<x.val[1]>>] ELSE x

\* {a: {$all: A}} with every item of A cut down.
WithoutExtraKeys(obj) ==
    <<Doc(obj[1].name,
          <<Elem("$all", "Array",
                 [i \in 1..Len(obj[1].val[1].val) |-> FirstKeyOnly(obj[1].val[1].val[i])])>>)>>

ElemMatchFormAll(obj) ==
    /\ OneOperator(obj, "$all")
    /\ obj[1].val[1].type = "Array"
    /\ Len(obj[1].val[1].val) > 0
    /\ LedByElemMatch(obj[1].val[1].val[1])

C16_AllFirstKey ==
    (Done /\ ElemMatchFormAll(query)) =>
        /\ result.ok = _parse(WithoutExtraKeys(query), 0).ok
        /\ result.code = _parse(WithoutExtraKeys(query), 0).code
        /\ result.msg = _parse(WithoutExtraKeys(query), 0).msg
        /\ result.expr = _parse(WithoutExtraKeys(query), 0).expr

\* An item with an unknown operator after its $elemMatch, parsed
\* successfully.
C16_Witness ==
    /\ Done
    /\ ElemMatchFormAll(query)
    /\ \E i \in 1..Len(query[1].val[1].val) :
          /\ Len(query[1].val[1].val[i].val) > 1
          /\ query[1].val[1].val[i].val[2].name = "$bogus"
    /\ result.ok
    /\ result.expr.type = "AND"

====
